---- MODULE Spec2Model ----
EXTENDS Integers, Sequences, FiniteSets, TLC

(***************************************************************************)
(* Numbers.  Every `number` of the program is an IEEE-754 binary64 value,  *)
(* and every +, -, *, / rounds its exact result to the nearest such value, *)
(* ties to even.  A non-negative finite number is modelled exactly, as     *)
(* [m |-> mantissa, e |-> exponent] with value m * 2^e, the mantissa a     *)
(* natural number of exactly 53 bits (or zero) kept as a little-endian     *)
(* sequence of 14-bit limbs, since TLC's integers are 32 bits wide.*)
(***************************************************************************)
Base == 2^14

Head0(a) == IF a = <<>> THEN 0 ELSE a[1]

Tail0(a) == IF a = <<>> THEN a ELSE Tail(a)

RECURSIVE BigNorm(_)
\* a without its high zero limbs
BigNorm(a) ==
  IF a # <<>> /\ a[Len(a)] = 0 THEN BigNorm(SubSeq(a, 1, Len(a) - 1)) ELSE a

RECURSIVE BigLin(_, _, _, _, _)
BigLinAt(a, k, b, j, v) == <<v % Base>> \o BigLin(Tail0(a), k, Tail0(b), j, v \div Base)

\* a * k + b * j + c for limbs k, j and a carry c; a negative result ends in
\* a negative limb
BigLin(a, k, b, j, c) ==
  IF a = <<>> /\ b = <<>> /\ c <= 0 THEN (IF c = 0 THEN <<>> ELSE <<c>>)
  ELSE BigLinAt(a, k, b, j, Head0(a) * k + Head0(b) * j + c)

RECURSIVE BigMul(_, _)
BigMul(a, b) ==
  IF b = <<>> THEN <<>> ELSE BigLin(a, b[1], <<0>> \o BigMul(a, Tail(b)), 1, 0)

RECURSIVE BigCmpAt(_, _, _)
BigCmpAt(a, b, i) ==
  IF i = 0 THEN 0
  ELSE IF a[i] = b[i] THEN BigCmpAt(a, b, i - 1)
  ELSE IF a[i] < b[i] THEN -1 ELSE 1

\* -1, 0, 1 as a < b, a = b, a > b
BigCmp(a, b) ==
  IF Len(a) # Len(b) THEN (IF Len(a) < Len(b) THEN -1 ELSE 1) ELSE BigCmpAt(a, b, Len(a))

\* a * 2^k
BigShl(a, k) ==
  IF a = <<>> THEN a ELSE [i \in 1..(k \div 14) |-> 0] \o BigLin(a, 2^(k % 14), <<>>, 0, 0)

\* a without its `drop` low limbs, divided by p = 2^s, s < 14
BigShrAt(a, drop, p) ==
  BigNorm([i \in 1..(Len(a) - drop) |->
             (a[i + drop] \div p)
             + (IF i + drop < Len(a) THEN (a[i + drop + 1] % p) * (Base \div p) ELSE 0)])

\* a \div 2^k
BigShr(a, k) == BigShrAt(a, k \div 14, 2^(k % 14))

\* bit k of a, k below the length of a
BigBit(a, k) == (a[k \div 14 + 1] \div 2^(k % 14)) % 2

\* whether the k lowest bits of a are all zero, k below the length of a
BigLowZero(a, k) ==
  /\ \A i \in 1..(k \div 14) : a[i] = 0
  /\ a[k \div 14 + 1] % 2^(k % 14) = 0

BitLen(x) == CHOOSE k \in 0..14 : 2^k > x /\ 2^k <= 2 * x + 1

BigBits(a) == IF a = <<>> THEN 0 ELSE (Len(a) - 1) * 14 + BitLen(a[Len(a)])

Zero == [m |-> <<>>, e |-> 0]

\* q, or q + 1 when the bits cut off are more than half a unit of q, or
\* exactly half and q is odd
Nearest(q, half, sticky) ==
  IF half /\ (sticky \/ q[1] % 2 = 1) THEN BigLin(q, 1, <<>>, 0, 1) ELSE q

RECURSIVE Round(_, _)
\* m * 2^e rounded once sh = (bits of m) - 53 is known
RoundBy(m, e, sh) ==
  IF sh <= 0 THEN [m |-> BigShl(m, 0 - sh), e |-> e + sh]
  ELSE Round(Nearest(BigShr(m, sh), BigBit(m, sh - 1) = 1, ~BigLowZero(m, sh - 1)), e + sh)

\* the binary64 value nearest to m * 2^e (ties to even), m a natural number
Round(m, e) == IF m = <<>> THEN Zero ELSE RoundBy(m, e, BigBits(m) - 53)

\* an integer 0 <= n < Base as a number
NumOfInt(n) ==
  IF n = 0 THEN Zero ELSE [m |-> BigShl(<<n>>, 53 - BitLen(n)), e |-> BitLen(n) - 53]

\* x * y
NumMul(x, y) ==
  IF x.m = <<>> \/ y.m = <<>> THEN Zero ELSE Round(BigMul(x.m, y.m), x.e + y.e)

RECURSIVE NumAdd(_, _)
\* x + y
NumAdd(x, y) ==
  IF x.m = <<>> THEN y
  ELSE IF y.m = <<>> THEN x
  ELSE IF x.e < y.e THEN NumAdd(y, x)
  ELSE Round(BigLin(BigShl(x.m, x.e - y.e), 1, y.m, 1, 0), y.e)

\* x - y for x >= y
NumSub(x, y) ==
  IF y.m = <<>> THEN x
  ELSE Round(BigNorm(BigLin(BigShl(x.m, x.e - y.e), 1, y.m, -1, 0)), y.e)

\* -1, 0, 1 as x < y, x = y, x > y
NumCmp(x, y) ==
  IF x.m = <<>> \/ y.m = <<>> THEN (IF x.m = y.m THEN 0 ELSE IF x.m = <<>> THEN -1 ELSE 1)
  ELSE IF x.e # y.e THEN (IF x.e < y.e THEN -1 ELSE 1)
  ELSE BigCmp(x.m, y.m)

RECURSIVE DivDigit(_, _, _)
DivTry(r, d, qd, c) ==
  IF c # <<>> /\ c[Len(c)] < 0 THEN DivDigit(r, d, qd - 1) ELSE <<qd, BigNorm(c)>>

\* <<q, r - q * d>> for the largest q <= qd with q * d <= r
DivDigit(r, d, qd) == DivTry(r, d, qd, BigLin(r, 1, d, 0 - qd, 0))

\* r \div d from their top limbs: at least the quotient, and at most 2 more,
\* for r < d * Base and the top limb of d at least Base \div 2
DivEstimate(r, d) ==
  IF Len(r) < Len(d) THEN 0
  ELSE IF Len(r) = Len(d) THEN r[Len(d)] \div d[Len(d)]
  ELSE IF r[Len(d) + 1] >= d[Len(d)] THEN Base - 1
  ELSE (r[Len(d) + 1] * Base + r[Len(d)]) \div d[Len(d)]

DivStep(q, dr) == <<(<<dr[1]>> \o q), dr[2]>>

RECURSIVE BigDivAt(_, _, _, _)
\* long division of the limbs i, i-1, .. 1 of n by d, from qr = <<the limbs
\* of the quotient so far, the remainder so far>>
BigDivAt(n, d, i, qr) ==
  IF i = 0 THEN qr
  ELSE IF qr[2] = <<>> /\ n[i] = 0 THEN BigDivAt(n, d, i - 1, <<(<<0>> \o qr[1]), <<>> >>)
  ELSE BigDivAt(n, d, i - 1,
                DivStep(qr[1], DivDigit(<<n[i]>> \o qr[2], d,
                                        DivEstimate(<<n[i]>> \o qr[2], d))))

\* twice the quotient, plus one when the division left a remainder
Sticky(qr) == BigLin(BigNorm(qr[1]), 2, <<>>, 0, IF qr[2] = <<>> THEN 0 ELSE 1)

\* x / y for y > 0: the mantissas are 53 bits wide, so 8 * y.m has a full top
\* limb and x.m * 2^56 \div y.m has 56 bits or more
NumDiv(x, y) ==
  IF x.m = <<>> THEN Zero
  ELSE Round(Sticky(BigDivAt(<<0, 0, 0, 0>> \o BigLin(x.m, 8, <<>>, 0, 0),
                             BigLin(y.m, 8, <<>>, 0, 0), 8, << <<>>, <<>> >>)),
             x.e - y.e - 57)

\* Math.ceil
MathCeil(x) ==
  IF x.m = <<>> \/ x.e >= 0 THEN x
  ELSE IF x.e <= -53 THEN NumOfInt(1)
  ELSE Round(BigLin(BigShr(x.m, 0 - x.e), 1, <<>>, 0,
                    IF BigLowZero(x.m, 0 - x.e) THEN 0 ELSE 1), 0)

\* number literals, as the binary64 values they denote
One == [m |-> <<0, 0, 0, 1024>>, e |-> -52]

\* 0.1 .. 0.9: 0x1.999999999999ap-4, 0x1.999999999999ap-3, 0x1.3333333333333p-2,
\* 0.4, 0.5, 0x1.3333333333333p-1, 0x1.6666666666666p-1, 0x1.999999999999ap-1,
\* 0x1.ccccccccccccdp-1
Tenths ==
  << [m |-> <<6554, 9830, 6553, 1638>>, e |-> -56],
     [m |-> <<6554, 9830, 6553, 1638>>, e |-> -55],
     [m |-> <<13107, 3276, 13107, 1228>>, e |-> -54],
     [m |-> <<6554, 9830, 6553, 1638>>, e |-> -54],
     [m |-> <<0, 0, 0, 1024>>, e |-> -53],
     [m |-> <<13107, 3276, 13107, 1228>>, e |-> -53],
     [m |-> <<9830, 6553, 9830, 1433>>, e |-> -53],
     [m |-> <<6554, 9830, 6553, 1638>>, e |-> -53],
     [m |-> <<3277, 13107, 3276, 1843>>, e |-> -53] >>

\* 1.05 = 0x1.0cccccccccccdp+0, 1.1 = 0x1.199999999999ap+0, 1.2 = 0x1.3333333333333p+0
Lit_1_05 == [m |-> <<3277, 13107, 3276, 1075>>, e |-> -52]

Lit_1_1 == [m |-> <<6554, 9830, 6553, 1126>>, e |-> -52]

Lit_1_2 == [m |-> <<13107, 3276, 13107, 1228>>, e |-> -52]

Lit_1_5 == [m |-> <<0, 0, 0, 1536>>, e |-> -52]

Lit_2 == [m |-> <<0, 0, 0, 1024>>, e |-> -51]

Lit_2_5 == [m |-> <<0, 0, 0, 1280>>, e |-> -51]

Lit_3 == [m |-> <<0, 0, 0, 1536>>, e |-> -51]

Lit_3_5 == [m |-> <<0, 0, 0, 1792>>, e |-> -51]

Lit_4 == [m |-> <<0, 0, 0, 1024>>, e |-> -50]

Lit_5 == [m |-> <<0, 0, 0, 1280>>, e |-> -50]

Lit_7 == [m |-> <<0, 0, 0, 1792>>, e |-> -50]

Lit_10 == [m |-> <<0, 0, 0, 1280>>, e |-> -49]
Lit_500 == [m |-> <<0, 0, 0, 2000>>, e |-> -44]
Lit_1000 == [m |-> <<0, 0, 0, 2000>>, e |-> -43]

(***************************************************************************)
(* Characters.  A text is a sequence of code points, the units `for (const *)
(* char of text)` iterates over; text.length counts UTF-16 code units, two *)
(* for a code point above U+FFFF.                                          *)
(***************************************************************************)
\* the UTF-16 code units of the one-character string `char`
CodeUnits(char) ==
  IF char >= 65536
  THEN <<55296 + ((char - 65536) \div 1024), 56320 + ((char - 65536) % 1024)>>
  ELSE <<char>>

\* char.charCodeAt(0)
charCodeAt0(char) == CodeUnits(char)[1]

RECURSIVE Length(_)
\* text.length
Length(t) == IF t = <<>> THEN 0 ELSE Len(CodeUnits(t[1])) + Length(Tail(t))

InRanges(code, ranges) == \E i \in DOMAIN ranges : code >= ranges[i][1] /\ code <= ranges[i][2]

\* a regular expression character class without the u flag matches a string
\* when one of its code units is in the class
RegexTest(ranges, char) == \E k \in DOMAIN CodeUnits(char) : InRanges(CodeUnits(char)[k], ranges)

CJKRanges ==
  << <<11904, 12031>>, <<12288, 12351>>, <<12352, 12447>>, <<12448, 12543>>,
     <<12544, 12591>>, <<12592, 12687>>, <<12688, 12703>>, <<12704, 12735>>,
     <<12736, 12783>>, <<12784, 12799>>, <<12800, 13055>>, <<13056, 13311>>,
     <<13312, 19903>>, <<19968, 40959>>, <<40960, 42127>>, <<42128, 42191>>,
     <<44032, 55215>>, <<63744, 64255>>, <<65072, 65103>>, <<65280, 65519>>,
     <<131072, 173791>>, <<173824, 177983>>, <<177984, 178207>>,
     <<178208, 183983>>, <<183984, 191471>>, <<196608, 201551>> >>

\* [a-zA-ZÀ-ɏḀ-ỿ]
LatinClass == << <<97, 122>>, <<65, 90>>, <<192, 591>>, <<7680, 7935>> >>

\* [0-9٠-٩۰-۹]
DigitClass == << <<48, 57>>, <<1632, 1641>>, <<1776, 1785>> >>

\* \s
WhitespaceClass ==
  << <<9, 13>>, <<32, 32>>, <<160, 160>>, <<5760, 5760>>, <<8192, 8202>>,
     <<8232, 8233>>, <<8239, 8239>>, <<8287, 8287>>, <<12288, 12288>>,
     <<65279, 65279>> >>

isCJKCharacter(char) == InRanges(charCodeAt0(char), CJKRanges)

\* getCharacterType testing for whitespace before anything else
getCharacterTypeWhitespaceFirst(char) ==
  IF RegexTest(WhitespaceClass, char) THEN "whitespace"
  ELSE IF isCJKCharacter(char) THEN "cjk"
  ELSE IF RegexTest(LatinClass, char) THEN "latin"
  ELSE IF RegexTest(DigitClass, char) THEN "digit"
  ELSE "symbol"

getCharacterType(char) ==
  IF isCJKCharacter(char) THEN "cjk"
  ELSE IF RegexTest(LatinClass, char) THEN "latin"
  ELSE IF RegexTest(DigitClass, char) THEN "digit"
  ELSE IF RegexTest(WhitespaceClass, char) THEN "whitespace"
  ELSE "symbol"

CountType(t, type) == Cardinality({i \in DOMAIN t : getCharacterType(t[i]) = type})

analyzeTextComposition(t) ==
  LET total == Length(t)
      cjk == CountType(t, "cjk")
  IN [cjk |-> cjk,
      latin |-> CountType(t, "latin"),
      digits |-> CountType(t, "digit"),
      symbols |-> CountType(t, "symbol"),
      whitespace |-> CountType(t, "whitespace"),
      total |-> total,
      cjkRatio |-> IF total > 0 THEN NumDiv(NumOfInt(cjk), NumOfInt(total)) ELSE Zero]

(***************************************************************************)
(* Configurations and providers.  An optional value is <<>> (undefined) or *)
(* <<v>>.                                                                  *)
(***************************************************************************)
DEFAULT_FALLBACK_CONFIG ==
  [charsPerToken |-> Lit_4,
   overhead |-> Lit_10,
   cjkTokensPerChar |-> Lit_1_5,
   mixedTextMultiplier |-> Lit_1_05,
   numberTokensPerChar |-> <<Lit_3_5>>,
   symbolTokensPerChar |-> <<Lit_2_5>>,
   whitespaceHandling |-> "compress"]

\* the configuration of the test suites' 'test-model'
TestConfig == [DEFAULT_FALLBACK_CONFIG EXCEPT !.cjkTokensPerChar = Lit_1_2]

\* a configuration without the optional divisors, counting whitespace
CountConfig ==
  [charsPerToken |-> Lit_3,
   overhead |-> Lit_5,
   cjkTokensPerChar |-> Lit_2,
   mixedTextMultiplier |-> Lit_1_1,
   numberTokensPerChar |-> <<>>,
   symbolTokensPerChar |-> <<>>,
   whitespaceHandling |-> "count"]

\* a caller's own fallback configuration
CustomFallback ==
  [charsPerToken |-> Lit_3_5,
   overhead |-> Lit_7,
   cjkTokensPerChar |-> One,
   mixedTextMultiplier |-> One,
   numberTokensPerChar |-> <<Lit_2>>,
   symbolTokensPerChar |-> <<>>,
   whitespaceHandling |-> "undefined"]

\* a caller's fallback configuration with an overhead of 2.5
HalfConfig == [DEFAULT_FALLBACK_CONFIG EXCEPT !.overhead = Lit_2_5]

\* the SimpleModelConfigProvider objects of the model, by name
Providers ==
  [P1 |-> [configs |-> ("m1" :> TestConfig @@ "m2" :> CountConfig), defaultModel |-> <<"m1">>],
   P2 |-> [configs |-> ("m2" :> [CountConfig EXCEPT !.whitespaceHandling = "ignore"]),
           defaultModel |-> <<>>]]

ProviderNames == DOMAIN Providers

\* SimpleModelConfigProvider.getConfig
getConfig(provider, modelName) ==
  IF modelName \in DOMAIN Providers[provider].configs
  THEN <<Providers[provider].configs[modelName]>>
  ELSE <<>>

\* SimpleModelConfigProvider.getSupportedModels
providerSupportedModels(provider) == DOMAIN Providers[provider].configs

\* SimpleModelConfigProvider.getDefaultModel
getDefaultModel(provider) == Providers[provider].defaultModel

\* whether an optional string is truthy: neither undefined nor ''
TruthyStr(s) == s # <<>> /\ s[1] # ""

\* a || b for an optional number a
NumOr(a, b) == IF a # <<>> /\ a[1] # Zero THEN a[1] ELSE b

(***************************************************************************)
(* The estimator: its three fields, and the call in progress.              *)
(***************************************************************************)
VARIABLES
  modelProvider,   \* this.modelProvider: a name of Providers
  fallbackConfig,  \* this.fallbackConfig
  defaultModel,    \* this.defaultModel: an optional string
  ctorArgs,        \* the arguments the constructor was called with
  pc,              \* "idle", or "returned" once a call has returned
  op,              \* the method called
  text,            \* its first argument: a text, a character, a payload or a list of texts
  modelName,       \* its modelName argument: an optional string
  result,          \* the value it returned
  providerArg,     \* the provider given to the constructor or to the latest setModelProvider
  streams          \* the estimateStream generators: their position and local variables

vars ==
  <<modelProvider, fallbackConfig, defaultModel, ctorArgs, pc, op, text, modelName, result,
    providerArg, streams>>

\* getModelConfig falling back to the hardcoded default whatever the
\* constructor was given
getModelConfigDefaultOnly(name) ==
  LET model == IF TruthyStr(name) THEN name[1]
               ELSE IF TruthyStr(defaultModel) THEN defaultModel[1]
               ELSE "unknown"
      found == getConfig(modelProvider, model)
  IN [config |-> IF found # <<>> THEN found[1] ELSE DEFAULT_FALLBACK_CONFIG, model |-> model]

\* getModelConfig without the default model
getModelConfigNoDefault(name) ==
  LET model == IF TruthyStr(name) THEN name[1] ELSE "unknown"
      found == getConfig(modelProvider, model)
  IN [config |-> IF found # <<>> THEN found[1] ELSE fallbackConfig, model |-> model]

\* getModelConfig looking the configuration up in the provider the
\* constructor was given
getModelConfigCtorProvider(name) ==
  LET model == IF TruthyStr(name) THEN name[1]
               ELSE IF TruthyStr(defaultModel) THEN defaultModel[1]
               ELSE "unknown"
      found == getConfig(ctorArgs.provider, model)
  IN [config |-> IF found # <<>> THEN found[1] ELSE fallbackConfig, model |-> model]

\* getModelConfig naming the default model when it falls back
getModelConfigNamesDefault(name) ==
  LET default == IF TruthyStr(defaultModel) THEN defaultModel[1] ELSE "unknown"
      model == IF TruthyStr(name) THEN name[1] ELSE default
      found == getConfig(modelProvider, model)
  IN [config |-> IF found # <<>> THEN found[1] ELSE fallbackConfig,
      model |-> IF found # <<>> THEN model ELSE default]

\* FuzzyTokenEstimator.getModelConfig
getModelConfig(name) ==
  LET model == IF TruthyStr(name) THEN name[1]
               ELSE IF TruthyStr(defaultModel) THEN defaultModel[1]
               ELSE "unknown"
      found == getConfig(modelProvider, model)
  IN [config |-> IF found # <<>> THEN found[1] ELSE fallbackConfig, model |-> model]

\* the empty-text branch with the multiplier applied to the overhead
emptyResultMultiplied(config, model) ==
  [tokens |-> MathCeil(NumMul(config.overhead, config.mixedTextMultiplier)),
   breakdown |-> [cjk |-> Zero, latin |-> Zero, digits |-> Zero, symbols |-> Zero,
                  overhead |-> config.overhead],
   textAnalysis |-> [totalChars |-> 0, cjkRatio |-> Zero, adjustmentFactor |-> One],
   confidence |-> "high",
   modelUsed |-> model]

\* the result of the empty-text branch
emptyResult(config, model) ==
  [tokens |-> config.overhead,
   breakdown |-> [cjk |-> Zero, latin |-> Zero, digits |-> Zero, symbols |-> Zero,
                  overhead |-> config.overhead],
   textAnalysis |-> [totalChars |-> 0, cjkRatio |-> Zero, adjustmentFactor |-> One],
   confidence |-> "high",
   modelUsed |-> model]

\* the digit divisor with the symbols' default
numberDivisorWrongDefault(config) == NumOr(config.numberTokensPerChar, Lit_2_5)

\* config.numberTokensPerChar || 3.5
numberDivisor(config) == NumOr(config.numberTokensPerChar, Lit_3_5)

\* config.symbolTokensPerChar || 2.5
symbolDivisor(config) == NumOr(config.symbolTokensPerChar, Lit_2_5)

\* whitespace counted unless it is ignored
countsWhitespaceUnlessIgnored(config) == config.whitespaceHandling # "ignore"

\* config.whitespaceHandling === 'count'
countsWhitespace(config) == config.whitespaceHandling = "count"

\* the closure processGroup: st holds currentType, currentGroup and breakdown
processGroup(st, config) ==
  IF st.currentGroup = <<>> \/ st.currentType = "null" THEN st
  ELSE LET len == NumOfInt(Length(st.currentGroup))
           b == st.breakdown
           b1 == CASE st.currentType = "cjk" ->
                        [b EXCEPT !.cjk = NumAdd(@, NumMul(len, config.cjkTokensPerChar))]
                   [] st.currentType = "latin" ->
                        [b EXCEPT !.latin = NumAdd(@, MathCeil(NumDiv(len, config.charsPerToken)))]
                   [] st.currentType = "digit" ->
                        [b EXCEPT !.digits = NumAdd(@, MathCeil(NumDiv(len, numberDivisor(config))))]
                   [] st.currentType = "symbol" ->
                        [b EXCEPT !.symbols = NumAdd(@, MathCeil(NumDiv(len, symbolDivisor(config))))]
                   [] st.currentType = "whitespace" ->
                        IF countsWhitespace(config)
                        THEN [b EXCEPT !.symbols = NumAdd(@, NumMul(len, Tenths[3]))]
                        ELSE b
       IN [st EXCEPT !.breakdown = b1, !.currentGroup = <<>>]

RECURSIVE groupLoopPerChar(_, _, _, _)
\* the loop with every character a group of its own
groupLoopPerChar(t, i, st, config) ==
  IF i > Len(t) THEN st
  ELSE groupLoopPerChar(t, i + 1, [processGroup(st, config) EXCEPT
                                     !.currentType = getCharacterType(t[i]),
                                     !.currentGroup = Append(@, t[i])], config)

RECURSIVE groupLoopSkipsWhitespace(_, _, _, _)
\* the loop passing over the whitespace that is not counted, which then
\* ends no run
groupLoopSkipsWhitespace(t, i, st, config) ==
  IF i > Len(t) THEN st
  ELSE IF getCharacterType(t[i]) = "whitespace" /\ ~countsWhitespace(config)
  THEN groupLoopSkipsWhitespace(t, i + 1, st, config)
  ELSE IF getCharacterType(t[i]) # st.currentType
  THEN groupLoopSkipsWhitespace(t, i + 1, [processGroup(st, config) EXCEPT
                                             !.currentType = getCharacterType(t[i]),
                                             !.currentGroup = Append(@, t[i])], config)
  ELSE groupLoopSkipsWhitespace(t, i + 1, [st EXCEPT !.currentGroup = Append(@, t[i])], config)

RECURSIVE groupLoop(_, _, _, _)
\* the loop over the characters of the text, from the i-th on
groupLoop(t, i, st, config) ==
  IF i > Len(t) THEN st
  ELSE IF getCharacterType(t[i]) # st.currentType
  THEN groupLoop(t, i + 1, [processGroup(st, config) EXCEPT
                              !.currentType = getCharacterType(t[i]),
                              !.currentGroup = Append(@, t[i])], config)
  ELSE groupLoop(t, i + 1, [st EXCEPT !.currentGroup = Append(@, t[i])], config)

\* the breakdown after the loop, without the last processGroup()
groupedBreakdownNoLastRun(t, config) ==
  LET st0 == [currentType |-> "null", currentGroup |-> <<>>,
              breakdown |-> [cjk |-> Zero, latin |-> Zero, digits |-> Zero,
                             symbols |-> Zero, overhead |-> config.overhead]]
  IN groupLoop(t, 1, st0, config).breakdown

\* the breakdown after the loop and the last processGroup()
groupedBreakdown(t, config) ==
  LET st0 == [currentType |-> "null", currentGroup |-> <<>>,
              breakdown |-> [cjk |-> Zero, latin |-> Zero, digits |-> Zero,
                             symbols |-> Zero, overhead |-> config.overhead]]
  IN processGroup(groupLoop(t, 1, st0, config), config).breakdown

\* the sum of the breakdown without the multiplier
baseTokensNoMultiplier(breakdown, config) ==
  NumAdd(NumAdd(NumAdd(NumAdd(NumAdd(Zero, breakdown.cjk), breakdown.latin),
                       breakdown.digits), breakdown.symbols), breakdown.overhead)

\* Object.values(breakdown).reduce(...), then *= config.mixedTextMultiplier
baseTokens(breakdown, config) ==
  NumMul(NumAdd(NumAdd(NumAdd(NumAdd(NumAdd(Zero, breakdown.cjk), breakdown.latin),
                              breakdown.digits), breakdown.symbols), breakdown.overhead),
         config.mixedTextMultiplier)

\* FuzzyTokenEstimator.calculateAdjustmentFactor
calculateAdjustmentFactor(japaneseRatio) ==
  IF NumCmp(japaneseRatio, Tenths[8]) = 1 THEN Tenths[6]
  ELSE IF japaneseRatio = Zero THEN One
  ELSE IF NumCmp(japaneseRatio, Tenths[2]) = -1 THEN Tenths[7]
  ELSE NumSub(Tenths[7],
              NumMul(NumDiv(NumSub(japaneseRatio, Tenths[2]), Tenths[6]), Tenths[1]))

\* FuzzyTokenEstimator.calculateConfidence
calculateConfidence(composition) ==
  IF composition.total < 10 THEN "low"
  ELSE IF NumCmp(composition.cjkRatio, Tenths[9]) = 1
          \/ NumCmp(composition.cjkRatio, Tenths[1]) = -1 THEN "high"
  ELSE IF NumCmp(NumDiv(NumOfInt(composition.symbols), NumOfInt(composition.total)),
                 Tenths[3]) = 1 THEN "low"
  ELSE "medium"

\* estimateDetailed once the configuration is resolved
estimateDetailedWith(t, config, model) ==
  IF t = <<>> THEN emptyResult(config, model)
  ELSE LET composition == analyzeTextComposition(t)
           breakdown == groupedBreakdown(t, config)
           adjustmentFactor == calculateAdjustmentFactor(composition.cjkRatio)
       IN [tokens |-> MathCeil(NumMul(baseTokens(breakdown, config), adjustmentFactor)),
           breakdown |-> breakdown,
           textAnalysis |-> [totalChars |-> Length(t),
                             cjkRatio |-> composition.cjkRatio,
                             adjustmentFactor |-> adjustmentFactor],
           confidence |-> calculateConfidence(composition),
           modelUsed |-> model]

\* FuzzyTokenEstimator.estimateDetailed
estimateDetailed(t, name) ==
  LET r == getModelConfig(name) IN estimateDetailedWith(t, r.config, r.model)

\* estimate without passing the model name on
estimateDefaultModel(t, name) == estimateDetailed(t, <<>>).tokens

\* FuzzyTokenEstimator.estimate
estimate(t, name) == estimateDetailed(t, name).tokens

\* estimatePayload: payload.maxTokens && payload.maxTokens > 0 ? payload.maxTokens : 500
maxTokensOrDefault(payload) ==
  IF payload.maxTokens # <<>> /\ payload.maxTokens[1] # 0 /\ payload.maxTokens[1] > 0
  THEN NumOfInt(payload.maxTokens[1])
  ELSE Lit_500

\* estimatePayload: the tokens of the prompt, a string or null
promptTokens(payload) ==
  IF payload.prompt # <<>> THEN estimate(payload.prompt[1], payload.model)
  ELSE getModelConfig(payload.model).config.overhead

\* estimatePayload without the safety margin
estimatePayloadNoMargin(payload) ==
  MathCeil(NumAdd(promptTokens(payload), maxTokensOrDefault(payload)))

\* FuzzyTokenEstimator.estimatePayload
estimatePayload(payload) ==
  MathCeil(NumMul(NumAdd(promptTokens(payload), maxTokensOrDefault(payload)), Lit_1_1))

\* estimateBatch returning the results in reverse order
estimateBatchReversed(texts, name) ==
  [i \in 1..Len(texts) |-> estimateDetailed(texts[Len(texts) + 1 - i], name)]

\* FuzzyTokenEstimator.estimateBatch
estimateBatch(texts, name) == [i \in 1..Len(texts) |-> estimateDetailed(texts[i], name)]

(***************************************************************************)
(* TokenCostCalculator.  A string built at run time is the sequence of its *)
(* characters.                                                             *)
(***************************************************************************)
\* the prices per 1000 tokens a CostProvider knows: 0.0015 and 0.002, 0.03
\* and 0.06, 0.001 and 0.001, 0 and 0, 1 and 2
Costs ==
  [gpt35 |-> [input |-> [m |-> <<16122, 12713, 14155, 1572>>, e |-> -62],
              output |-> [m |-> <<10748, 3014, 9437, 1048>>, e |-> -61]],
   gpt4 |-> [input |-> [m |-> <<7864, 11796, 1310, 1966>>, e |-> -58],
             output |-> [m |-> <<7864, 11796, 1310, 1966>>, e |-> -57]],
   cheap |-> [input |-> [m |-> <<10748, 3014, 9437, 1048>>, e |-> -62],
              output |-> [m |-> <<10748, 3014, 9437, 1048>>, e |-> -62]],
   free |-> [input |-> Zero, output |-> Zero],
   expensive |-> [input |-> One, output |-> Lit_2]]

\* CostProvider.getCost(model): a price record, or undefined
getCost(model) == IF model \in DOMAIN Costs THEN <<Costs[model]>> ELSE <<>>

RECURSIVE Decimal(_, _)
\* the decimal digits of n, at least `width` of them
Decimal(n, width) ==
  IF n = 0 /\ width <= 0 THEN <<>>
  ELSE Append(Decimal(n \div 10, width - 1),
              <<"0", "1", "2", "3", "4", "5", "6", "7", "8", "9">>[(n % 10) + 1])

\* the integer n for which n / 10^4 is nearest to x, the larger one of two;
\* x below 2^17
toFixedUnits(x) ==
  IF x.m = <<>> THEN 0
  ELSE LET n == BigShr(BigLin(BigLin(x.m, 10000, <<>>, 0, 0), 1, BigShl(<<1>>, (0 - x.e) - 1), 1, 0),
                       0 - x.e) \o <<0, 0, 0>>
       IN n[1] + Base * n[2] + Base * Base * n[3]

\* x.toFixed(4)
toFixed4(x) ==
  Decimal(toFixedUnits(x) \div 10000, 1) \o <<".">> \o Decimal(toFixedUnits(x) % 10000, 4)

\* calculate pricing the tokens one by one instead of per thousand
calculatePerToken(model, inputTokens, outputTokens) ==
  LET pricing == getCost(model)
      inputCost == NumMul(NumOfInt(inputTokens), pricing[1].input)
      outputCost == NumMul(NumOfInt(outputTokens), pricing[1].output)
  IN IF pricing = <<>>
     THEN [inputCost |-> Zero, outputCost |-> Zero, totalCost |-> Zero,
           formattedTotal |-> <<"N", "/", "A">>, available |-> FALSE]
     ELSE [inputCost |-> inputCost, outputCost |-> outputCost,
           totalCost |-> NumAdd(inputCost, outputCost),
           formattedTotal |-> <<"$">> \o toFixed4(NumAdd(inputCost, outputCost)),
           available |-> TRUE]

\* calculate taking a model without a price for a free one
calculateUnpricedAsFree(model, inputTokens, outputTokens) ==
  [inputCost |-> Zero, outputCost |-> Zero, totalCost |-> Zero,
   formattedTotal |-> <<"$">> \o toFixed4(Zero), available |-> TRUE]

\* TokenCostCalculator.calculate
calculate(model, inputTokens, outputTokens) ==
  LET pricing == getCost(model)
      inputCost == NumMul(NumDiv(NumOfInt(inputTokens), Lit_1000), pricing[1].input)
      outputCost == NumMul(NumDiv(NumOfInt(outputTokens), Lit_1000), pricing[1].output)
  IN IF pricing = <<>>
     THEN [inputCost |-> Zero, outputCost |-> Zero, totalCost |-> Zero,
           formattedTotal |-> <<"N", "/", "A">>, available |-> FALSE]
     ELSE [inputCost |-> inputCost, outputCost |-> outputCost,
           totalCost |-> NumAdd(inputCost, outputCost),
           formattedTotal |-> <<"$">> \o toFixed4(NumAdd(inputCost, outputCost)),
           available |-> TRUE]

(***************************************************************************)
(* Inputs.                                                                 *)
(***************************************************************************)
MaxLen == 3
MaxLenModels == 1
MaxRun == 10

\* 'a', '1', '!', ' ', 'あ' (U+3042), '𠀀' (U+20000, CJK Unified Ideographs Extension B)
Chars == {97, 49, 33, 32, 12354, 131072}

RECURSIVE TextsUpTo(_)
TextsUpTo(n) ==
  IF n = 0 THEN {<<>>}
  ELSE LET S == TextsUpTo(n - 1) IN S \cup {Append(s, c) : s \in S, c \in Chars}

RECURSIVE Repeat(_, _)
Repeat(c, n) == IF n = 0 THEN <<>> ELSE <<c>> \o Repeat(c, n - 1)

\* i times 'あ' followed by j times 'a'
RatioTexts == {Repeat(12354, i) \o Repeat(97, j) : i \in 0..MaxRun, j \in 0..MaxRun}

\* requested model names: none, '', two configured names and an unknown one
ModelNames == {<<>>, <<"">>, <<"m1">>, <<"m2">>, <<"zz">>}

\* constructor options: fallbackConfig and defaultModel, each optional
OptionSets ==
  [fallbackConfig : {<<>>, <<CustomFallback>>},
   defaultModel : {<<>>, <<"">>, <<"m2">>, <<"zz">>}]

NoOptions == [fallbackConfig |-> <<>>, defaultModel |-> <<>>]

MaxMix == 5

\* a character below, at the start of, at the end of and above every range
\* the classifier tests, without the surrogate code units, which are not
\* characters
CharSamples ==
  LET R == {CJKRanges[i] : i \in DOMAIN CJKRanges} \cup {LatinClass[i] : i \in DOMAIN LatinClass}
           \cup {DigitClass[i] : i \in DOMAIN DigitClass}
           \cup {WhitespaceClass[i] : i \in DOMAIN WhitespaceClass}
  IN ({r[1] - 1 : r \in R} \cup {r[1] : r \in R} \cup {r[2] : r \in R} \cup {r[2] + 1 : r \in R}
      \cup {128512}) \ (55296..57343)

\* i times 'あ', j times 'a', k times '!' and l times '😀' (U+1F600)
MixTexts ==
  {Repeat(12354, i) \o Repeat(97, j) \o Repeat(33, k) \o Repeat(128512, l) :
     i \in 0..MaxMix, j \in 0..MaxMix, k \in 0..MaxMix, l \in 0..MaxMix}

MaxBatch == 3

\* payloads: the prompt null or a string, the model absent, configured or
\* unknown, maxTokens absent, zero, negative or positive
Payloads ==
  [prompt : {<<>>} \cup {<<t>> : t \in TextsUpTo(MaxLenModels)},
   model : {<<>>, <<"m2">>, <<"zz">>},
   maxTokens : {<<>>, <<0>>, <<-1>>, <<1>>, <<5>>, <<100>>, <<1000>>}]

\* '', 'a', 'あ1' and '𠀀 !'
BatchTexts == {<<>>, <<97>>, <<12354, 49>>, <<131072, 32, 33>>}

RECURSIVE Batches(_)
Batches(n) ==
  IF n = 0 THEN {<<>>}
  ELSE LET S == Batches(n - 1) IN S \cup {Append(b, t) : b \in S, t \in BatchTexts}

MaxChunks == 2
MaxRequests == 3

\* the estimateStream generators that may exist at once
StreamIds == {1, 2}

\* the chunks of each stream: '' and 'あa' for the first, 'a' for the second
Chunks == << {<<>>, <<12354, 97>>}, {<<97>>} >>

RECURSIVE ChunkLists(_, _)
\* the finite inputs: what a textStream made of the chunks C delivers before
\* it ends
ChunkLists(n, C) ==
  IF n = 0 THEN {<<>>}
  ELSE LET S == ChunkLists(n - 1, C) IN S \cup {Append(l, c) : l \in S, c \in C}

\* the modelName given with each stream: none, and 'm2'
StreamModels == << <<>>, <<"m2">> >>

\* a generator that does not exist yet
NoStream ==
  [pc |-> "none", input |-> <<>>, name |-> <<>>, taken |-> 0, requested |-> 0, answered |-> 0,
   total |-> Zero, out |-> <<>>]

(***************************************************************************)
(* Operations.                                                             *)
(***************************************************************************)
\* new FuzzyTokenEstimator(provider, options), before any call
Construct(provider, options) ==
  /\ modelProvider = provider
  /\ fallbackConfig = (IF options.fallbackConfig # <<>> THEN options.fallbackConfig[1]
                       ELSE DEFAULT_FALLBACK_CONFIG)
  /\ defaultModel = (IF TruthyStr(options.defaultModel) THEN options.defaultModel
                     ELSE getDefaultModel(provider))
  /\ ctorArgs = [provider |-> provider, options |-> options]
  /\ pc = "idle"
  /\ op = "none"
  /\ text = <<>>
  /\ modelName = <<>>
  /\ result = <<>>
  /\ providerArg = provider
  /\ streams = [s \in StreamIds |-> NoStream]

\* a call that keeps the model name it was given as the default model
CallRemembersModel(method, t, name, value) ==
  /\ pc = "idle"
  /\ pc' = "returned"
  /\ op' = method
  /\ text' = t
  /\ modelName' = name
  /\ result' = value
  /\ defaultModel' = (IF TruthyStr(name) THEN name ELSE defaultModel)
  /\ UNCHANGED <<modelProvider, fallbackConfig, ctorArgs, providerArg, streams>>

Call(method, t, name, value) ==
  /\ pc = "idle"
  /\ pc' = "returned"
  /\ op' = method
  /\ text' = t
  /\ modelName' = name
  /\ result' = value
  /\ UNCHANGED <<modelProvider, fallbackConfig, defaultModel, ctorArgs, providerArg, streams>>

EstimateDetailed(t, name) == Call("estimateDetailed", t, name, estimateDetailed(t, name))

Estimate(t, name) == Call("estimate", t, name, estimate(t, name))

\* the caller has taken the returned value
Return ==
  /\ pc = "returned"
  /\ pc' = "idle"
  /\ op' = "none"
  /\ text' = <<>>
  /\ modelName' = <<>>
  /\ result' = <<>>
  /\ UNCHANGED <<modelProvider, fallbackConfig, defaultModel, ctorArgs, providerArg, streams>>

\* setModelProvider taking the default model of the new provider too
setModelProviderWithDefault(provider) ==
  /\ pc = "idle"
  /\ modelProvider' = provider
  /\ providerArg' = provider
  /\ defaultModel' = (IF TruthyStr(getDefaultModel(provider)) THEN getDefaultModel(provider)
                      ELSE defaultModel)
  /\ UNCHANGED <<fallbackConfig, ctorArgs, pc, op, text, modelName, result, streams>>

\* FuzzyTokenEstimator.setModelProvider
setModelProvider(provider) ==
  /\ pc = "idle"
  /\ modelProvider' = provider
  /\ providerArg' = provider
  /\ UNCHANGED <<fallbackConfig, defaultModel, ctorArgs, pc, op, text, modelName, result, streams>>

\* CharacterClassifier.isCJKCharacter(char)
IsCJKCharacter(char) == Call("isCJKCharacter", <<char>>, <<>>, isCJKCharacter(char))

\* CharacterClassifier.getCharacterType(char)
GetCharacterType(char) == Call("getCharacterType", <<char>>, <<>>, getCharacterType(char))

\* CharacterClassifier.analyzeTextComposition(text)
AnalyzeTextComposition(t) == Call("analyzeTextComposition", t, <<>>, analyzeTextComposition(t))

\* FuzzyTokenEstimator.estimatePayload(payload)
EstimatePayload(payload) == Call("estimatePayload", payload, payload.model, estimatePayload(payload))

\* FuzzyTokenEstimator.estimateBatch(texts, modelName)
EstimateBatch(texts, name) == Call("estimateBatch", texts, name, estimateBatch(texts, name))

\* FuzzyTokenEstimator.getModelProvider()
GetModelProvider == Call("getModelProvider", <<>>, <<>>, modelProvider)

\* FuzzyTokenEstimator.getSupportedModels()
GetSupportedModels == Call("getSupportedModels", <<>>, <<>>, providerSupportedModels(modelProvider))

\* TokenCostCalculator.calculate(model, inputTokens, outputTokens)
Calculate(model, inputTokens, outputTokens) ==
  Call("calculate", <<model, inputTokens, outputTokens>>, <<>>,
       calculate(model, inputTokens, outputTokens))

(***************************************************************************)
(* estimateStream, an async generator.  A generator is at "start" once     *)
(* created, "awaiting" while `for await` waits for textStream's next       *)
(* chunk, "suspended" at its yield with no request left to serve, and      *)
(* "done" once textStream has ended.  It runs only to serve a next() of    *)
(* its consumer; the requests made while it is busy are queued.            *)
(***************************************************************************)
\* a queued request treated as present at all times
streamRequestedAlways(st) == TRUE

\* the generator's queue holds a request that has not been answered
streamRequested(st) == st.requested > st.answered

\* the running total read from the first generator, whichever generator runs
streamTotalOfFirst(sts, s) == sts[1].total

\* the local variable `total` of generator s
streamTotal(sts, s) == sts[s].total

\* the generator runs up to its await: `let total = 0` if it is starting,
\* then `for await` asks textStream for its next chunk
streamResumed(st) ==
  [st EXCEPT !.total = IF st.pc = "start" THEN Zero ELSE @,
             !.taken = @ + 1,
             !.pc = "awaiting"]

\* the yield without the addition to the running total
streamElementNoSum(chunk, tokens, total) == [chunk |-> chunk, tokens |-> tokens, total |-> tokens]

\* tokens = this.estimate(chunk, modelName); total += tokens; the value yielded
streamElement(chunk, tokens, total) ==
  [chunk |-> chunk, tokens |-> tokens, total |-> NumAdd(total, tokens)]

\* the loop body up to the yield, which answers the oldest request
streamYield(st, element) ==
  [st EXCEPT !.total = element.total,
             !.out = Append(@, element),
             !.answered = @ + 1,
             !.pc = "suspended"]

\* the generator after textStream has delivered a chunk: it yields, and goes
\* on to the next chunk if a request is waiting
streamAfterChunk(st) == IF streamRequested(st) THEN streamResumed(st) ELSE st

\* the generator after textStream has ended: every queued request is
\* answered with done
streamReturn(st) == [st EXCEPT !.pc = "done", !.answered = st.requested]

\* estimator.estimateStream(textStream, modelName): the generator is created
EstimateStream(s, chunks, name) ==
  /\ streams[s].pc = "none"
  /\ streams' = [streams EXCEPT ![s] = [NoStream EXCEPT !.pc = "start", !.input = chunks, !.name = name]]
  /\ UNCHANGED <<modelProvider, fallbackConfig, defaultModel, ctorArgs, pc, op, text, modelName,
                 result, providerArg>>

\* the consumer of generator s calls next()
StreamNext(s) ==
  /\ streams[s].pc # "none"
  /\ streams[s].requested < MaxRequests
  /\ streams' = [streams EXCEPT ![s] =
       IF @.pc \in {"start", "suspended"} THEN streamResumed([@ EXCEPT !.requested = @ + 1])
       ELSE IF @.pc = "done" THEN [@ EXCEPT !.requested = @ + 1, !.answered = @ + 1]
       ELSE [@ EXCEPT !.requested = @ + 1]]
  /\ UNCHANGED <<modelProvider, fallbackConfig, defaultModel, ctorArgs, pc, op, text, modelName,
                 result, providerArg>>

\* textStream answers generator s: with its next chunk, or with its end
StreamDeliver(s) ==
  /\ streams[s].pc = "awaiting"
  /\ streams' = [streams EXCEPT ![s] =
       IF @.taken > Len(@.input) THEN streamReturn(@)
       ELSE streamAfterChunk(streamYield(@,
              streamElement(@.input[@.taken], estimate(@.input[@.taken], @.name),
                            streamTotal(streams, s))))]
  /\ UNCHANGED <<modelProvider, fallbackConfig, defaultModel, ctorArgs, pc, op, text, modelName,
                 result, providerArg>>

(***************************************************************************)
(* Specifications.                                                         *)
(***************************************************************************)
\* every short text, under the two configurations of provider P1
Init == Construct("P1", NoOptions)

EstimateDetailedText == \E t \in TextsUpTo(MaxLen), n \in {<<"m1">>, <<"m2">>} : EstimateDetailed(t, n)

EstimateText == \E t \in TextsUpTo(MaxLen), n \in {<<"m1">>, <<"m2">>} : Estimate(t, n)

Next == EstimateDetailedText \/ EstimateText \/ Return

Spec == Init /\ [][Next]_vars

\* every construction, every requested name, provider swaps
InitModels == \E p \in ProviderNames, o \in OptionSets : Construct(p, o)

EstimateDetailedModels == \E t \in TextsUpTo(MaxLenModels), n \in ModelNames : EstimateDetailed(t, n)

EstimateModels == \E t \in TextsUpTo(MaxLenModels), n \in ModelNames : Estimate(t, n)

SetProviderModels == \E p \in ProviderNames : setModelProvider(p)

NextModels == EstimateDetailedModels \/ EstimateModels \/ SetProviderModels \/ Return

SpecModels == InitModels /\ [][NextModels]_vars

\* the same, with the provider's accessors
NextProvider ==
  \/ EstimateDetailedModels
  \/ EstimateModels
  \/ SetProviderModels
  \/ GetModelProvider
  \/ GetSupportedModels
  \/ Return

SpecProvider == InitModels /\ [][NextProvider]_vars

\* texts of every CJK ratio i / (i + j), under the default model and under m2
EstimateDetailedRatio == \E t \in RatioTexts, n \in {<<>>, <<"m2">>} : EstimateDetailed(t, n)

NextRatio == EstimateDetailedRatio \/ Return

SpecRatio == Init /\ [][NextRatio]_vars

\* the classifier on every sampled character, and the composition and the
\* estimate of texts mixing four kinds of characters
IsCJKCharacterSample == \E c \in CharSamples : IsCJKCharacter(c)

GetCharacterTypeSample == \E c \in CharSamples : GetCharacterType(c)

AnalyzeTextCompositionMix == \E t \in MixTexts : AnalyzeTextComposition(t)

EstimateDetailedMix == \E t \in MixTexts : EstimateDetailed(t, <<>>)

NextClassifier ==
  \/ IsCJKCharacterSample
  \/ GetCharacterTypeSample
  \/ AnalyzeTextCompositionMix
  \/ EstimateDetailedMix
  \/ Return

SpecClassifier == Init /\ [][NextClassifier]_vars

\* payloads and batches
EstimatePayloadAny == \E p \in Payloads : EstimatePayload(p)

EstimateBatchAny == \E b \in Batches(MaxBatch), n \in {<<>>, <<"m2">>, <<"zz">>} : EstimateBatch(b, n)

NextPayload == EstimatePayloadAny \/ EstimateBatchAny \/ Return

SpecPayload == Init /\ [][NextPayload]_vars

\* two generators on one estimator, their steps interleaved in any order
EstimateStreamAny ==
  \E s \in StreamIds : \E l \in ChunkLists(MaxChunks, Chunks[s]) : EstimateStream(s, l, StreamModels[s])

StreamNextAny == \E s \in StreamIds : StreamNext(s)

StreamDeliverAny == \E s \in StreamIds : StreamDeliver(s)

NextStream == EstimateStreamAny \/ StreamNextAny \/ StreamDeliverAny

SpecStream == Init /\ [][NextStream]_vars

\* the cost of some token counts, for the models with a price and two
\* without
CalculateAny ==
  \E model \in DOMAIN Costs \cup {"unknown-model", ""},
     inputTokens \in {0, 1, 250, 500, 1000, 2000, 12345},
     outputTokens \in {0, 1, 500, 750, 1000, 12345} :
    Calculate(model, inputTokens, outputTokens)

NextCost == CalculateAny \/ Return

SpecCost == Init /\ [][NextCost]_vars

\* the detailed estimates alone, for the properties of the scan
NextRuns == EstimateDetailedText \/ Return

SpecRuns == Init /\ [][NextRuns]_vars

\* the five estimation methods, the calls of one kind interleaved with the
\* others and with the steps of a stream
EstimateFrame ==
  \E t \in Chunks[1], n \in {<<>>, <<"m2">>} :
    \/ EstimateDetailed(t, n)
    \/ Estimate(t, n)
    \/ EstimatePayload([prompt |-> <<t>>, model |-> n, maxTokens |-> <<5>>])
    \/ EstimateBatch(<<t, <<97>>>>, n)

EstimateStreamFrame == \E l \in ChunkLists(MaxChunks, Chunks[1]) : EstimateStream(1, l, <<"m2">>)

NextFrame == EstimateFrame \/ EstimateStreamFrame \/ StreamNextAny \/ StreamDeliverAny \/ Return

SpecFrame == Init /\ [][NextFrame]_vars

\* a stream of chunks 'a a' and '' under 'm2', the provider replaced at any
\* moment of the iteration
EstimateStreamSwap ==
  \E l \in ChunkLists(MaxChunks, {<<>>, <<97, 32, 97>>}) : EstimateStream(1, l, <<"m2">>)

NextSwap == EstimateStreamSwap \/ StreamNextAny \/ StreamDeliverAny \/ SetProviderModels

SpecSwap == Init /\ [][NextSwap]_vars

\* an estimator whose provider knows no 'm1' and whose fallback
\* configuration has a fractional overhead
InitFallback == Construct("P2", [fallbackConfig |-> <<HalfConfig>>, defaultModel |-> <<>>])

SpecFallback == InitFallback /\ [][Next]_vars

(***************************************************************************)
(* Properties.                                                             *)
(***************************************************************************)
\* the configuration the call in progress resolves to
Resolved == getModelConfig(modelName).config

Returned(method) == pc = "returned" /\ op = method

\* C1: for every non-empty text and every configuration, estimateDetailed's
\* tokens is the ceiling of (cjk + latin + digits + symbols + overhead of its
\* breakdown) x mixedTextMultiplier x the adjustmentFactor it reports, and
\* breakdown.overhead is the configuration's overhead; the multiplier is
\* applied to single-script text too.
C1_TokensFormula ==
  Returned("estimateDetailed") /\ text # <<>> =>
    LET b == result.breakdown
        sum == NumAdd(NumAdd(NumAdd(NumAdd(b.cjk, b.latin), b.digits), b.symbols), b.overhead)
    IN /\ b.overhead = Resolved.overhead
       /\ result.tokens = MathCeil(NumMul(NumMul(sum, Resolved.mixedTextMultiplier),
                                          result.textAnalysis.adjustmentFactor))

\* a single-script text whose tokens the multiplier has changed
C1_Witness ==
  /\ Returned("estimateDetailed")
  /\ text = <<97, 97, 97>>
  /\ result.breakdown.latin # Zero
  /\ result.tokens # MathCeil(NumMul(NumAdd(result.breakdown.latin, result.breakdown.overhead),
                                     result.textAnalysis.adjustmentFactor))

\* C2: for the empty text and any model name, estimateDetailed returns the
\* resolved configuration's overhead as tokens, exactly, with the four
\* category subtotals 0, breakdown.overhead the overhead, totalChars 0,
\* cjkRatio 0 and confidence "high"; and estimate("") is the overhead.
C2_EmptyText ==
  pc = "returned" /\ text = <<>> =>
    IF op = "estimate" THEN result = Resolved.overhead
    ELSE /\ result.tokens = Resolved.overhead
         /\ result.breakdown = [cjk |-> Zero, latin |-> Zero, digits |-> Zero,
                                symbols |-> Zero, overhead |-> Resolved.overhead]
         /\ result.textAnalysis.totalChars = 0
         /\ result.textAnalysis.cjkRatio = Zero
         /\ result.confidence = "high"

\* the empty text estimated under a configuration whose multiplier would
\* have changed the overhead
C2_Witness ==
  /\ Returned("estimateDetailed")
  /\ text = <<>>
  /\ result.tokens # MathCeil(NumMul(Resolved.overhead, Resolved.mixedTextMultiplier))

\* C5: for every text and model name, estimate(text, model) is
\* estimateDetailed(text, model).tokens.
C5_EstimateIsTokens ==
  Returned("estimate") => result = estimateDetailed(text, modelName).tokens

\* estimate of a non-empty text under a model other than the default one
C5_Witness ==
  /\ Returned("estimate")
  /\ text # <<>>
  /\ modelName = <<"m2">>
  /\ result # estimateDetailed(text, <<>>).tokens

\* the hardcoded default configuration, value by value
C3_HardcodedDefault ==
  [charsPerToken |-> Lit_4, overhead |-> Lit_10, cjkTokensPerChar |-> Lit_1_5,
   mixedTextMultiplier |-> Lit_1_05, numberTokensPerChar |-> <<Lit_3_5>>,
   symbolTokensPerChar |-> <<Lit_2_5>>, whitespaceHandling |-> "compress"]

\* the fallbackConfig given at construction, or else the hardcoded default
C3_Fallback ==
  IF ctorArgs.options.fallbackConfig # <<>> THEN ctorArgs.options.fallbackConfig[1]
  ELSE C3_HardcodedDefault

\* the model name to look up: the requested name when one is given (a name
\* that is not the empty string), else the defaultModel option, else the
\* constructor's provider's default model, else "unknown"
C4_LookedUp ==
  IF TruthyStr(modelName) THEN modelName[1]
  ELSE IF TruthyStr(ctorArgs.options.defaultModel) THEN ctorArgs.options.defaultModel[1]
  ELSE IF TruthyStr(getDefaultModel(ctorArgs.provider)) THEN getDefaultModel(ctorArgs.provider)[1]
  ELSE "unknown"

\* C3: for every text and every model name the provider has no configuration
\* for, estimate and estimateDetailed return (no error) what they would
\* return had the provider mapped that name to the fallback configuration:
\* the fallbackConfig given at construction, or else the hardcoded default
\* (4, 10, 1.5, 1.05, 3.5, 2.5, compress).
C3_UnknownModelFallsBack ==
  pc = "returned" /\ C4_LookedUp \notin providerSupportedModels(modelProvider) =>
    IF op = "estimate"
    THEN result = estimateDetailedWith(text, C3_Fallback, C4_LookedUp).tokens
    ELSE result = estimateDetailedWith(text, C3_Fallback, C4_LookedUp)

\* an unknown name estimated by an estimator built with its own fallback
\* configuration, with a result the hardcoded default would not give
C3_Witness ==
  /\ Returned("estimateDetailed")
  /\ modelName = <<"zz">>
  /\ text # <<>>
  /\ ctorArgs.options.fallbackConfig # <<>>
  /\ result.tokens # estimateDetailedWith(text, C3_HardcodedDefault, "zz").tokens

\* C4: the model name looked up is the requested name when one is given,
\* else the engine's default model (the defaultModel option, else the
\* provider's getDefaultModel()), else "unknown"; so a call without a model
\* name returns what a call naming the default model returns.
C4_ModelNameResolution ==
  /\ Returned("estimateDetailed") => result.modelUsed = C4_LookedUp
  /\ pc = "returned" /\ modelName = <<>> =>
       IF op = "estimate" THEN result = estimate(text, <<C4_LookedUp>>)
       ELSE result = estimateDetailed(text, <<C4_LookedUp>>)

\* a call without a model name on an estimator whose defaultModel option
\* differs from its provider's default model
C4_Witness ==
  /\ Returned("estimateDetailed")
  /\ modelName = <<>>
  /\ text # <<>>
  /\ ctorArgs.options.defaultModel = <<"m2">>
  /\ getDefaultModel(ctorArgs.provider) = <<"m1">>
  /\ result.modelUsed = "m2"

\* C6: for every text of Latin characters only, of length n, under a
\* configuration with charsPerToken c, the Latin subtotal is ceiling(n / c),
\* the CJK subtotal is 0 and cjkRatio is 0.
C6_PureLatin ==
  Returned("estimateDetailed") /\ (\A i \in DOMAIN text : InRanges(text[i], LatinClass)) =>
    /\ result.breakdown.latin = MathCeil(NumDiv(NumOfInt(Len(text)), Resolved.charsPerToken))
    /\ result.breakdown.cjk = Zero
    /\ result.textAnalysis.cjkRatio = Zero

\* a Latin text of several tokens
C6_Witness ==
  /\ Returned("estimateDetailed")
  /\ Len(text) >= 5
  /\ \A i \in DOMAIN text : InRanges(text[i], LatinClass)
  /\ modelName = <<"m2">>
  /\ result.breakdown.latin = Lit_2

\* C7: for every text of CJK characters only, of length n, under a
\* configuration with cjkTokensPerChar k, the CJK subtotal is n x k, the
\* Latin subtotal is 0 and cjkRatio is exactly 1.  A CJK character is a
\* character of one of the blocks isCJKCharacter lists.
C7_PureCJK ==
  Returned("estimateDetailed") /\ text # <<>>
    /\ (\A i \in DOMAIN text : InRanges(text[i], CJKRanges)) =>
    /\ result.breakdown.cjk = NumMul(NumOfInt(Len(text)), Resolved.cjkTokensPerChar)
    /\ result.breakdown.latin = Zero
    /\ result.textAnalysis.cjkRatio = One

\* the last position of the run of one character type that starts at i
RunEnd(t, i) ==
  CHOOSE j \in i..Len(t) :
    /\ \A k \in i..j : getCharacterType(t[k]) = getCharacterType(t[i])
    /\ j = Len(t) \/ getCharacterType(t[j + 1]) # getCharacterType(t[i])

\* what a run of the given type and length adds to the subtotal `field`
RunAdds(field, type, len, config) ==
  CASE field = "cjk" /\ type = "cjk" -> NumMul(len, config.cjkTokensPerChar)
    [] field = "latin" /\ type = "latin" -> MathCeil(NumDiv(len, config.charsPerToken))
    [] field = "digits" /\ type = "digit" ->
         MathCeil(NumDiv(len, IF config.numberTokensPerChar = <<>> THEN Lit_3_5
                              ELSE config.numberTokensPerChar[1]))
    [] field = "symbols" /\ type = "symbol" ->
         MathCeil(NumDiv(len, IF config.symbolTokensPerChar = <<>> THEN Lit_2_5
                              ELSE config.symbolTokensPerChar[1]))
    [] field = "symbols" /\ type = "whitespace" /\ config.whitespaceHandling = "count" ->
         NumMul(len, Tenths[3])
    [] OTHER -> Zero

RECURSIVE RunSum(_, _, _, _, _)
\* acc plus what the runs of t from position i on add to the subtotal
\* `field`, run after run; the length of a run is the length of its string
RunSum(t, i, acc, field, config) ==
  IF i > Len(t) THEN acc
  ELSE RunSum(t, RunEnd(t, i) + 1,
              NumAdd(acc, RunAdds(field, getCharacterType(t[i]),
                                  NumOfInt(Length(SubSeq(t, i, RunEnd(t, i)))), config)),
              field, config)

\* the configuration with the divisors it omits set to 3.5 and 2.5
C8_WithDefaults(config) ==
  [config EXCEPT !.numberTokensPerChar = IF @ = <<>> THEN <<Lit_3_5>> ELSE @,
                 !.symbolTokensPerChar = IF @ = <<>> THEN <<Lit_2_5>> ELSE @]

C9_WhitespaceHandling ==
  Returned("estimateDetailed") =>
    LET with(h) == estimateDetailedWith(text, [Resolved EXCEPT !.whitespaceHandling = h],
                                        result.modelUsed)
        sums(h) == [f \in {"cjk", "latin", "digits", "symbols"} |->
                      RunSum(text, 1, Zero, f, [Resolved EXCEPT !.whitespaceHandling = h])]
        subtotals(r) == [f \in {"cjk", "latin", "digits", "symbols"} |-> r.breakdown[f]]
    IN /\ with("ignore") = with("compress")
       /\ with("ignore") = with("undefined")
       /\ subtotals(with("ignore")) = sums("ignore")
       /\ subtotals(with("count")) = sums("count")
       /\ \A f \in {"cjk", "latin", "digits"} : sums("count")[f] = sums("ignore")[f]
       /\ result = with(Resolved.whitespaceHandling)

\* a text with whitespace between two symbols, counted
C9_Witness ==
  /\ Returned("estimateDetailed")
  /\ text = <<33, 32, 33>>
  /\ Resolved.whitespaceHandling = "count"
  /\ result.breakdown.symbols = NumAdd(NumAdd(One, Tenths[3]), One)

\* C10: the adjustment factor is 1.0 at ratio 0, 0.7 below 0.2,
\* 0.7 - ((r - 0.2) / 0.6) x 0.1 from 0.2 to 0.8, 0.6 above 0.8; it does not
\* increase with the ratio, lies in [0.6, 1.0], and is 0.7 at 0.2 and 0.6
\* at 0.8.
C10_AdjustmentFactor ==
  Returned("estimateDetailed") =>
    LET r == result.textAnalysis.cjkRatio
        f == result.textAnalysis.adjustmentFactor
    IN /\ r = Zero => f = One
       /\ NumCmp(r, Zero) = 1 /\ NumCmp(r, Tenths[2]) = -1 => f = Tenths[7]
       /\ NumCmp(r, Tenths[2]) >= 0 /\ NumCmp(r, Tenths[8]) <= 0 =>
            f = NumSub(Tenths[7], NumMul(NumDiv(NumSub(r, Tenths[2]), Tenths[6]), Tenths[1]))
       /\ NumCmp(r, Tenths[8]) = 1 => f = Tenths[6]
       /\ NumCmp(f, Tenths[6]) >= 0 /\ NumCmp(f, One) <= 0
       /\ r = Tenths[2] => f = Tenths[7]
       /\ r = Tenths[8] => f = Tenths[6]
       /\ \A t \in RatioTexts :
            NumCmp(r, analyzeTextComposition(t).cjkRatio) <= 0 =>
              NumCmp(f, calculateAdjustmentFactor(analyzeTextComposition(t).cjkRatio)) >= 0

\* the characters of t that the classifier puts in the category `type`
CharsOfType(t, type) == Cardinality({i \in DOMAIN t : getCharacterType(t[i]) = type})

\* C11: for every non-empty text the confidence is decided by the first rule
\* that matches: fewer than 10 characters gives "low"; else a CJK ratio above
\* 0.9 or below 0.1 gives "high"; else more than 0.3 symbols per character
\* gives "low"; else "medium".  So a text of fewer than 10 characters is
\* "low" whatever its script, and a text of 10 characters or more without
\* CJK, or of CJK only, is "high".
C11_ConfidenceRule ==
  Returned("estimateDetailed") /\ text # <<>> =>
    LET total == Len(text)
        cjk == CharsOfType(text, "cjk")
        symbols == CharsOfType(text, "symbol")
    IN result.confidence =
         (IF total < 10 THEN "low"
          ELSE IF 10 * cjk > 9 * total \/ 10 * cjk < total THEN "high"
          ELSE IF 10 * symbols > 3 * total THEN "low"
          ELSE "medium")

\* C12: for every text the composition's five counts add up to its total,
\* its cjkRatio is within [0, 1], is cjk / total when total > 0 and is 0 for
\* the empty text.
C12_CompositionSum ==
  Returned("analyzeTextComposition") =>
    /\ result.cjk + result.latin + result.digits + result.symbols + result.whitespace
         = result.total
    /\ NumCmp(result.cjkRatio, Zero) >= 0
    /\ NumCmp(result.cjkRatio, One) <= 0
    /\ result.total > 0 => result.cjkRatio = NumDiv(NumOfInt(result.cjk), NumOfInt(result.total))
    /\ text = <<>> => result.total = 0 /\ result.cjkRatio = Zero

\* C13: isCJKCharacter is true exactly for the characters whose code point is
\* in one of the listed ranges, those of the supplementary planes included;
\* such a character is 'cjk' for getCharacterType, is counted as CJK in the
\* composition and adds to the CJK subtotal of the breakdown.
C13_CJKRanges ==
  /\ Returned("isCJKCharacter") => result = InRanges(text[1], CJKRanges)
  /\ Returned("getCharacterType") /\ InRanges(text[1], CJKRanges) => result = "cjk"
  /\ Returned("analyzeTextComposition") =>
       result.cjk = Cardinality({i \in DOMAIN text : InRanges(text[i], CJKRanges)})
  /\ Returned("estimateDetailed") =>
       (result.breakdown.cjk # Zero <=> \E i \in DOMAIN text : InRanges(text[i], CJKRanges))

\* the tests of getCharacterType on a character, in the order of the source
CategoryTests(char) ==
  << <<"cjk", InRanges(charCodeAt0(char), CJKRanges)>>,
     <<"latin", RegexTest(LatinClass, char)>>,
     <<"digit", RegexTest(DigitClass, char)>>,
     <<"whitespace", RegexTest(WhitespaceClass, char)>> >>

\* C14: getCharacterType gives every character exactly one of the five
\* categories: that of the first test the character passes, in the order
\* CJK, Latin, Digit, Whitespace, and 'symbol' when it passes none; the
\* ideographic space U+3000, in a CJK range and whitespace at once, is 'cjk'.
C14_FirstMatchingCategory ==
  Returned("getCharacterType") =>
    LET tests == CategoryTests(text[1])
        passed == {k \in DOMAIN tests : tests[k][2]}
    IN /\ result \in {"cjk", "latin", "digit", "whitespace", "symbol"}
       /\ result = (IF passed = {} THEN "symbol"
                    ELSE tests[CHOOSE k \in passed : \A j \in passed : k <= j][1])
       /\ text = <<12288>> => result = "cjk"

\* the ideographic space, which passes two tests, has been classified
C14_Witness ==
  /\ Returned("getCharacterType")
  /\ text = <<12288>>
  /\ Cardinality({k \in DOMAIN CategoryTests(12288) : CategoryTests(12288)[k][2]}) = 2
  /\ result = "cjk"

\* C15: for every payload, estimatePayload is the ceiling of (P + M) x 1.1,
\* where P is the estimate of the prompt under the payload's model when the
\* prompt is a string and the resolved configuration's overhead when it is
\* null, and M is maxTokens when positive and 500 when absent, zero or
\* negative; the result is greater than M.
C15_PayloadFormula ==
  Returned("estimatePayload") =>
    LET P == IF text.prompt = <<>> THEN getModelConfig(text.model).config.overhead
             ELSE estimateDetailed(text.prompt[1], text.model).tokens
        M == IF text.maxTokens = <<>> THEN NumOfInt(500)
             ELSE IF text.maxTokens[1] <= 0 THEN NumOfInt(500)
             ELSE NumOfInt(text.maxTokens[1])
    IN /\ result = MathCeil(NumMul(NumAdd(P, M), Lit_1_1))
       /\ NumCmp(result, M) = 1

\* a null prompt with maxTokens 0: the overhead plus the default 500, with
\* the margin
C15_Witness ==
  /\ Returned("estimatePayload")
  /\ text.prompt = <<>>
  /\ text.maxTokens = <<0>>
  /\ NumCmp(result, NumAdd(Resolved.overhead, NumOfInt(500))) = 1

\* C16: estimateBatch returns a list as long as the list of texts whose i-th
\* element is estimateDetailed of the i-th text under the given model name,
\* whatever the other texts and their number; the empty list gives the empty
\* list.
C16_BatchElementwise ==
  Returned("estimateBatch") =>
    /\ Len(result) = Len(text)
    /\ \A i \in 1..Len(text) :
         /\ result[i] = estimateDetailed(text[i], modelName)
         /\ result[i] = estimateBatch(<<text[i]>>, modelName)[1]
    /\ text = <<>> => result = <<>>

\* a batch of three texts whose results differ from one another
C16_Witness ==
  /\ Returned("estimateBatch")
  /\ Len(text) = 3
  /\ Len(result) = 3
  /\ result[1] # result[2] /\ result[2] # result[3] /\ result[1] # result[3]

\* the generators that have been created
Started == {s \in StreamIds : streams[s].pc # "none"}

\* C17: for a finite input c1..cn, estimateStream yields the elements in
\* input order, the k-th with chunk ck, tokens estimate(ck, model) and total
\* the (k-1)-th total plus its tokens, the first total starting from 0; it
\* has yielded exactly n elements when it ends; the empty chunk yields an
\* element too, whose tokens are the overhead.
C17_StreamElements ==
  \A s \in Started :
    LET st == streams[s] IN
    /\ Len(st.out) <= Len(st.input)
    /\ st.pc = "done" => Len(st.out) = Len(st.input)
    /\ \A k \in 1..Len(st.out) :
         /\ st.out[k].chunk = st.input[k]
         /\ st.out[k].tokens = estimate(st.input[k], st.name)
         /\ st.out[k].total = NumAdd(IF k = 1 THEN Zero ELSE st.out[k - 1].total, st.out[k].tokens)
         /\ st.input[k] = <<>> => st.out[k].tokens = getModelConfig(st.name).config.overhead

\* a stream of a text and an empty chunk has ended, having yielded both
C17_Witness ==
  \E s \in Started :
    /\ streams[s].pc = "done"
    /\ streams[s].input = <<<<12354, 97>>, <<>>>>
    /\ Len(streams[s].out) = 2
    /\ streams[s].out[2].total # streams[s].out[2].tokens

\* C18: estimateStream takes a chunk from its input only to serve a request
\* of its consumer: at every moment the chunks taken, and the estimates
\* computed, are at most the outputs requested, and while no request is
\* waiting the generator rests, having taken no chunk it has not yielded.
C18_PullBased ==
  \A s \in Started :
    LET st == streams[s] IN
    /\ st.taken <= st.requested
    /\ Len(st.out) <= st.requested
    /\ st.answered <= st.requested
    /\ st.answered = st.requested => st.pc \in {"start", "suspended", "done"}
    /\ st.pc \in {"start", "suspended"} => st.taken = Len(st.out)

\* a generator rests after its first output while its input has a chunk left
C18_Witness ==
  \E s \in Started :
    /\ streams[s].pc = "suspended"
    /\ streams[s].requested = 1
    /\ streams[s].taken = 1
    /\ Len(streams[s].out) = 1
    /\ Len(streams[s].input) > 1

RECURSIVE TotalsAreOwnSums(_, _, _)
\* from the k-th on, every total generator st has yielded is sum, the sum of
\* the estimates of the chunks before the k-th, plus those up to its own
TotalsAreOwnSums(st, k, sum) ==
  \/ k > Len(st.out)
  \/ /\ st.out[k].total = NumAdd(sum, estimate(st.input[k], st.name))
     /\ TotalsAreOwnSums(st, k + 1, st.out[k].total)

\* C19: generators running on one estimator with their steps interleaved do
\* not affect each other: every total a generator yields is the sum of the
\* estimates of its own chunks so far, counted from 0.
C19_StreamsIndependent ==
  \A s \in Started : TotalsAreOwnSums(streams[s], 1, Zero)

\* two generators in progress at once, the first two outputs ahead, the
\* second one output ahead and waiting for its input
C19_Witness ==
  /\ Started = StreamIds
  /\ streams[1].pc = "suspended" /\ Len(streams[1].out) = 2
  /\ streams[2].pc = "awaiting" /\ Len(streams[2].out) = 1
  /\ streams[1].total # Zero
  /\ streams[2].total # Zero
  /\ streams[2].total # streams[1].total

\* the configuration the provider given last holds for the model a result
\* names, or the fallback
C20_ConfigOfLastProvider(model) ==
  IF model \in DOMAIN Providers[providerArg].configs
  THEN Providers[providerArg].configs[model]
  ELSE fallbackConfig

\* C20: after setModelProvider(p) the provider in effect is p, the last one
\* set: getModelProvider returns p, getSupportedModels returns p's models,
\* and every estimate takes its configuration from p, not from a provider
\* set before.
C20_LastProviderInEffect ==
  /\ modelProvider = providerArg
  /\ Returned("getModelProvider") => result = providerArg
  /\ Returned("getSupportedModels") => result = DOMAIN Providers[providerArg].configs
  /\ Returned("estimateDetailed") =>
       result = estimateDetailedWith(text, C20_ConfigOfLastProvider(result.modelUsed),
                                     result.modelUsed)
  /\ Returned("estimate") =>
       result = estimateDetailedWith(text, C20_ConfigOfLastProvider(getModelConfig(modelName).model),
                                     getModelConfig(modelName).model).tokens

\* an estimate after the provider was changed, for a model the two providers
\* configure differently, with a result the first provider would not give
C20_Witness ==
  /\ Returned("estimateDetailed")
  /\ providerArg # ctorArgs.provider
  /\ getConfig(ctorArgs.provider, result.modelUsed) # <<>>
  /\ getConfig(providerArg, result.modelUsed) # <<>>
  /\ result # estimateDetailedWith(text, getConfig(ctorArgs.provider, result.modelUsed)[1],
                                   result.modelUsed)

\* C22: for a model the cost provider has no price for, and any token
\* counts, calculate returns available false, the three costs 0 and
\* formattedTotal "N/A".
C22_UnpricedModel ==
  Returned("calculate") /\ text[1] \notin DOMAIN Costs =>
    /\ result.available = FALSE
    /\ result.inputCost = Zero
    /\ result.outputCost = Zero
    /\ result.totalCost = Zero
    /\ result.formattedTotal = <<"N", "/", "A">>

\* the cost of 1000 and 500 tokens of a model without a price
C22_Witness ==
  /\ Returned("calculate")
  /\ text = <<"unknown-model", 1000, 500>>
  /\ result.available = FALSE

RECURSIVE DigitsValue(_)
\* the number a sequence of decimal digits writes, -1 if one is not a digit
DigitsValue(d) ==
  IF d = <<>> THEN 0
  ELSE IF d[Len(d)] \notin {"0", "1", "2", "3", "4", "5", "6", "7", "8", "9"} THEN -1
  ELSE IF DigitsValue(SubSeq(d, 1, Len(d) - 1)) < 0 THEN -1
  ELSE 10 * DigitsValue(SubSeq(d, 1, Len(d) - 1))
       + (CHOOSE k \in 0..9 : Decimal(k, 1) = <<d[Len(d)]>>)

\* a natural number below 2^31 as limbs
BigOfInt(n) == BigNorm(<<n % Base, (n \div Base) % Base, n \div (Base * Base)>>)

\* whether n / 10^4 is within half of 10^-4 of x
WithinHalfUnit(n, x) ==
  IF x.m = <<>> THEN n = 0
  ELSE LET twice == BigLin(x.m, 20000, <<>>, 0, 0)
           unit == BigShl(<<1>>, 0 - x.e)
       IN /\ n >= 0
          /\ BigCmp(twice, BigMul(BigOfInt(2 * n + 1), unit)) <= 0
          /\ n > 0 => BigCmp(BigMul(BigOfInt(2 * n - 1), unit), twice) <= 0

IsInteger(x) == x.m = <<>> \/ x.e >= 0 \/ (x.e > -53 /\ BigLowZero(x.m, 0 - x.e))

\* C24: for every text, the empty text included, and every configuration,
\* the tokens field of the result of estimateDetailed is an integer.
C24_TokensInteger == Returned("estimateDetailed") => IsInteger(result.tokens)

\* the same for the texts that are not empty, where the total is rounded up
C24_NonEmptyTokensInteger ==
  Returned("estimateDetailed") /\ text # <<>> => IsInteger(result.tokens)

\* C25: for every text that is not empty and every model configuration,
\* estimate(text) is strictly greater than the overhead of the
\* configuration.
C25_AboveOverhead ==
  Returned("estimate") /\ text # <<>> => NumCmp(result, Resolved.overhead) = 1

\* the same for the texts without a CJK character, whose adjustment factor
\* is 1
C25_AboveOverheadWithoutCJK ==
  Returned("estimate") /\ text # <<>> /\ CharsOfType(text, "cjk") = 0 =>
    NumCmp(result, Resolved.overhead) = 1

\* the state of the scan of the text in progress after its first n
\* characters
C26_Scan(n) ==
  groupLoop(SubSeq(text, 1, n), 1,
            [currentType |-> "null", currentGroup |-> <<>>,
             breakdown |-> [cjk |-> Zero, latin |-> Zero, digits |-> Zero,
                            symbols |-> Zero, overhead |-> Resolved.overhead]], Resolved)

\* the positions where the scan ends a run: the last one, and those before a
\* character of another category
C26_RunEnds ==
  {n \in DOMAIN text : n = Len(text) \/ getCharacterType(text[n + 1]) # getCharacterType(text[n])}

\* the first position of the run the scan holds after n characters
C26_RunStart(n) == n - Len(C26_Scan(n).currentGroup) + 1

RECURSIVE C26_RunLengths(_)
\* the sum of the lengths of the runs that end at or before position n
C26_RunLengths(n) ==
  IF n = 0 THEN 0
  ELSE C26_RunLengths(n - 1)
       + (IF n \in C26_RunEnds THEN Length(C26_Scan(n).currentGroup) ELSE 0)

\* C26: the scan of estimateDetailed assigns every character to exactly one
\* run, in text order; the characters of a run have one category, adjacent
\* runs have different categories, the run lengths sum to the text length,
\* and every run, the last one included, is accumulated into the breakdown
\* exactly once.
C26_RunPartition ==
  Returned("estimateDetailed") =>
    /\ \A n \in C26_RunEnds :
         LET st == C26_Scan(n)
             s == C26_RunStart(n)
         IN /\ s \in 1..n
            /\ st.currentGroup = SubSeq(text, s, n)
            /\ \A k \in s..n : getCharacterType(text[k]) = st.currentType
            /\ s = 1 \/ getCharacterType(text[s - 1]) # st.currentType
            /\ \A f \in {"cjk", "latin", "digits", "symbols"} :
                 st.breakdown[f] = RunSum(SubSeq(text, 1, s - 1), 1, Zero, f, Resolved)
    /\ \A i \in DOMAIN text :
         Cardinality({n \in C26_RunEnds : i \in C26_RunStart(n)..n}) = 1
    /\ C26_RunLengths(Len(text)) = Length(text)
    /\ \A f \in {"cjk", "latin", "digits", "symbols"} :
         result.breakdown[f] = RunSum(text, 1, Zero, f, Resolved)
    /\ result.breakdown.overhead = Resolved.overhead

\* a Latin run, a digit run and a Latin run: three runs, two of them Latin
C26_Witness ==
  /\ Returned("estimateDetailed")
  /\ text = <<97, 49, 97>>
  /\ C26_RunEnds = {1, 2, 3}
  /\ result.breakdown.latin = Lit_2
  /\ result.breakdown.digits = One

\* C27: when a model name is requested, modelUsed is that name, also when
\* the provider has no configuration for it and the fallback configuration
\* is used; modelUsed differs from the request only when no name was
\* requested (undefined or ''), and then it is the default model, or
\* "unknown".
C27_ModelUsedIsRequested ==
  Returned("estimateDetailed") =>
    /\ TruthyStr(modelName) =>
         /\ result.modelUsed = modelName[1]
         /\ getConfig(modelProvider, modelName[1]) = <<>> =>
              result = estimateDetailedWith(text, fallbackConfig, modelName[1])
    /\ modelName # <<result.modelUsed>> =>
         /\ modelName \in {<<>>, <<"">>}
         /\ result.modelUsed = (IF TruthyStr(defaultModel) THEN defaultModel[1] ELSE "unknown")

\* a requested name the provider does not know, on an estimator with
\* another default model
C27_Witness ==
  /\ Returned("estimateDetailed")
  /\ modelName = <<"zz">>
  /\ defaultModel = <<"m2">>
  /\ getConfig(modelProvider, "zz") = <<>>
  /\ result.breakdown.overhead = fallbackConfig.overhead
  /\ result.modelUsed = "zz"

\* the default model name the constructor fixed, or "unknown"
C29_OldDefault ==
  IF TruthyStr(ctorArgs.options.defaultModel) THEN ctorArgs.options.defaultModel[1]
  ELSE IF TruthyStr(getDefaultModel(ctorArgs.provider)) THEN getDefaultModel(ctorArgs.provider)[1]
  ELSE "unknown"

\* the fallback configuration the constructor fixed
C29_OldFallback ==
  IF ctorArgs.options.fallbackConfig # <<>> THEN ctorArgs.options.fallbackConfig[1]
  ELSE DEFAULT_FALLBACK_CONFIG

\* C29: the default model name is fixed at construction; setModelProvider
\* changes the provider reference only, so that after a swap a call without
\* a model name resolves to the old default name, looks it up in the new
\* provider and uses the fallback configuration when the new provider does
\* not know the name; the default model of the new provider plays no part.
C29_DefaultFixedAtConstruction ==
  /\ modelProvider = providerArg
  /\ fallbackConfig = C29_OldFallback
  /\ (IF TruthyStr(defaultModel) THEN defaultModel[1] ELSE "unknown") = C29_OldDefault
  /\ Returned("estimateDetailed") /\ ~TruthyStr(modelName) =>
       result = estimateDetailedWith(text,
                                     IF C29_OldDefault \in providerSupportedModels(providerArg)
                                     THEN Providers[providerArg].configs[C29_OldDefault]
                                     ELSE C29_OldFallback,
                                     C29_OldDefault)

\* a call without a model name after the provider was replaced by one that
\* does not know the default model of the constructor's provider
C29_Witness ==
  /\ Returned("estimateDetailed")
  /\ modelName = <<>>
  /\ ctorArgs = [provider |-> "P1",
                 options |-> [fallbackConfig |-> <<CustomFallback>>, defaultModel |-> <<>>]]
  /\ modelProvider = "P2"
  /\ getDefaultModel("P2") # <<"m1">>
  /\ result.modelUsed = "m1"
  /\ result.breakdown.overhead = CustomFallback.overhead

\* the length of the characters of the text in progress that have the
\* given category, as one string
C28_Units(type) == Length(SelectSeq(text, LAMBDA c : getCharacterType(c) = type))

\* ceiling(n / d)
C28_Ceiling(n, d) == MathCeil(NumDiv(NumOfInt(n), d))

\* C28: under "ignore" and "compress", whitespace still ends the run before
\* it: two Latin runs of lengths a and b with whitespace between them add
\* ceiling(a/c) + ceiling(b/c), and likewise for digits and symbols; the
\* Latin, Digit and Symbol subtotals are never smaller than the value
\* computed from the total length of the category.
C28_WhitespaceEndsRuns ==
  Returned("estimateDetailed") /\ Resolved.whitespaceHandling \in {"ignore", "compress"} =>
    /\ \A a, k, b \in 1..Len(text) :
         /\ text = Repeat(97, a) \o Repeat(32, k) \o Repeat(97, b) =>
              result.breakdown.latin
                = NumAdd(C28_Ceiling(a, Resolved.charsPerToken),
                         C28_Ceiling(b, Resolved.charsPerToken))
         /\ text = Repeat(49, a) \o Repeat(32, k) \o Repeat(49, b) =>
              result.breakdown.digits
                = NumAdd(C28_Ceiling(a, numberDivisor(Resolved)),
                         C28_Ceiling(b, numberDivisor(Resolved)))
         /\ text = Repeat(33, a) \o Repeat(32, k) \o Repeat(33, b) =>
              result.breakdown.symbols
                = NumAdd(C28_Ceiling(a, symbolDivisor(Resolved)),
                         C28_Ceiling(b, symbolDivisor(Resolved)))
    /\ NumCmp(result.breakdown.latin,
              C28_Ceiling(C28_Units("latin"), Resolved.charsPerToken)) >= 0
    /\ NumCmp(result.breakdown.digits,
              C28_Ceiling(C28_Units("digit"), numberDivisor(Resolved))) >= 0
    /\ NumCmp(result.breakdown.symbols,
              C28_Ceiling(C28_Units("symbol"), symbolDivisor(Resolved))) >= 0

\* 'a a' under "ignore" and charsPerToken 3: two Latin runs give 2, the two
\* letters in one run would give 1
C28_Witness ==
  /\ Returned("estimateDetailed")
  /\ text = <<97, 32, 97>>
  /\ Resolved.whitespaceHandling = "ignore"
  /\ result.breakdown.latin = Lit_2
  /\ C28_Ceiling(C28_Units("latin"), Resolved.charsPerToken) = One

\* the result of estimateDetailed(t, name) as the constructor's arguments
\* alone determine it
C21_Detailed(t, name) ==
  LET model == IF TruthyStr(name) THEN name[1] ELSE C29_OldDefault
  IN estimateDetailedWith(t, IF model \in providerSupportedModels(ctorArgs.provider)
                             THEN Providers[ctorArgs.provider].configs[model]
                             ELSE C29_OldFallback, model)

\* C21: estimate, estimateDetailed, estimatePayload, estimateBatch and
\* estimateStream leave the provider reference, the fallback configuration
\* and the default model as the constructor set them, so that, without
\* setModelProvider, a call returns the same result for the same text and
\* model name whatever estimation calls came before it.
C21_EstimationFrame ==
  /\ modelProvider = ctorArgs.provider
  /\ fallbackConfig = C29_OldFallback
  /\ defaultModel = (IF TruthyStr(ctorArgs.options.defaultModel) THEN ctorArgs.options.defaultModel
                     ELSE getDefaultModel(ctorArgs.provider))
  /\ Returned("estimateDetailed") => result = C21_Detailed(text, modelName)
  /\ Returned("estimate") => result = C21_Detailed(text, modelName).tokens
  /\ Returned("estimatePayload") =>
       result = MathCeil(NumMul(NumAdd(C21_Detailed(text.prompt[1], text.model).tokens,
                                       maxTokensOrDefault(text)), Lit_1_1))
  /\ Returned("estimateBatch") =>
       result = [i \in 1..Len(text) |-> C21_Detailed(text[i], modelName)]
  /\ \A s \in Started : \A k \in 1..Len(streams[s].out) :
       streams[s].out[k].tokens = C21_Detailed(streams[s].input[k], streams[s].name).tokens

\* a call without a model name returns, after a stream under 'm2' has
\* yielded two elements
C21_Witness ==
  /\ Returned("estimateDetailed")
  /\ text = <<12354, 97>>
  /\ modelName = <<>>
  /\ result.modelUsed = "m1"
  /\ Len(streams[1].out) = 2
  /\ streams[1].name = <<"m2">>

\* the tokens of a chunk under the configuration the provider given last
\* has for the model of stream s
C30_Tokens(s, chunk) ==
  LET model == IF TruthyStr(streams[s].name) THEN streams[s].name[1] ELSE C29_OldDefault
  IN estimateDetailedWith(chunk, C20_ConfigOfLastProvider(model), model).tokens

\* a step of the estimator, seen from stream s
C30_Step(s) ==
  LET before == streams[s].out
      after == streams'[s].out
  IN /\ Len(after) \in {Len(before), Len(before) + 1}
     /\ SubSeq(after, 1, Len(before)) = before
     /\ Len(after) = Len(before) + 1 =>
          LET element == after[Len(after)] IN
          /\ element.chunk = streams[s].input[Len(after)]
          /\ element.tokens = C30_Tokens(s, element.chunk)
          /\ element.total = NumAdd(IF before = <<>> THEN Zero ELSE before[Len(before)].total,
                                    element.tokens)
     /\ modelProvider' # modelProvider => streams'[s] = streams[s]

\* C30: when setModelProvider is called during an estimateStream iteration,
\* every chunk estimated after the swap is estimated with the configuration
\* of the new provider, the elements already yielded are unchanged, and the
\* running total goes on from its value before the swap, so the final total
\* is the sum of the estimates, each under the provider in effect at its
\* chunk.
C30_SwapDuringStream == [][\A s \in StreamIds : C30_Step(s)]_vars

\* two chunks 'a a', the first estimated under the constructor's provider and
\* the second under the provider that replaced it
C30_Witness ==
  /\ ctorArgs.provider = "P1"
  /\ modelProvider = "P2"
  /\ streams[1].input = <<<<97, 32, 97>>, <<97, 32, 97>>>>
  /\ Len(streams[1].out) = 2
  /\ streams[1].out[1].tokens
       = estimateDetailedWith(<<97, 32, 97>>, Providers["P1"].configs["m2"], "m2").tokens
  /\ streams[1].out[2].tokens
       = estimateDetailedWith(<<97, 32, 97>>, Providers["P2"].configs["m2"], "m2").tokens
  /\ streams[1].out[1].tokens # streams[1].out[2].tokens
  /\ streams[1].out[2].total = NumAdd(streams[1].out[1].tokens, streams[1].out[2].tokens)

====
